---- MODULE Spec2Model ----
(***************************************************************************)
(* Mini Bucket (app/main.py): a blob directory plus an SQLite catalog      *)
(* ("files" table), with lazy TTL expiry.  Every request handler runs      *)
(* cleanup_expired() and then its own body; handlers of different requests *)
(* interleave statement by statement.                                      *)
(*                                                                         *)
(* SQLite semantics used by the model: a connection's SELECT reads the     *)
(* committed table; the first INSERT/DELETE of a connection opens a write  *)
(* transaction and takes the database write lock (one writer at a time, a  *)
(* second writer waits; the expiry of its busy timeout is not modelled);   *)
(* conn.commit() publishes the staged changes and releases the lock.       *)
(* Path.unlink acts on the directory at once.  OS-level I/O failures       *)
(* (unlink, write, commit) are not modelled; a crash is modelled for the   *)
(* upload only.                                                            *)
(*                                                                         *)
(* Spec runs two requests concurrently over a narrow set of uploads;       *)
(* SpecSeq serves requests one at a time over the full set.                *)
(***************************************************************************)
EXTENDS Integers, Sequences, FiniteSets, TLC

VARIABLES
    clock,    \* int(time.time())
    files,    \* committed rows of table "files"
    blobs,    \* OBJECTS_DIR: path -> bytes written so far
    nextId,   \* number of identifiers uuid4 has handed out, plus one
    dbLock,   \* the connection holding the write lock, or NoProc
    txn,      \* per request: rows staged for insert / ids staged for delete
    pc,       \* per request: the statement it is about to execute
    op,       \* per request: the endpoint called and its arguments
    loc,      \* per request: the handler's local variables
    res,      \* per request: the response
    hist,     \* history: what was uploaded under each id, who removed it
    served    \* number of requests accepted so far

vars == <<clock, files, blobs, nextId, dbLock, txn, pc, op, loc, res, hist,
          served>>

----------------------------------------------------------------------------
\* Bounds of the model: the last clock value, the number of identifiers
\* uuid4 hands out, and the number of requests served (concurrently, and one
\* at a time).
MaxClock == 2
MaxIds == 2
MaxRequests == 3
MaxSeqRequests == 4

\* read(1024 * 1024) of save_upload, scaled to the model's content lengths.
ChunkSize == 2

Procs == {"r1", "r2"}
NoProc == "none"

\* Optional[...] values: None is the empty tuple, a value v is <<v>>.
None == <<>>
Some(v) == <<v>>

Ids == 1 .. MaxIds
Filenames == {"a.txt", "b.txt"}
\* Uploaded bodies with their declared content type: empty, and longer than
\* one copy chunk.
Payloads == { <<None, <<>>>>, <<Some("text/plain"), <<7, 8, 9>>>> }
ValidExps == {None, Some(1)}
InvalidExps == {Some(-1), Some(0)}

Min(a, b) == IF a <= b THEN a ELSE b

----------------------------------------------------------------------------
\* Requests.
NoArgs == [name |-> "none", filename |-> "", content_type |-> None,
           content |-> <<>>, exp |-> None, file_id |-> 0]

Upload(f, pl, e) ==
    [NoArgs EXCEPT !.name = "upload", !.filename = f, !.content_type = pl[1],
                   !.content = pl[2], !.exp = e]

\* The uploads: "a.txt" with either payload, "b.txt" with the empty one,
\* each with and without a TTL; and the uploads with a TTL that is rejected.
UploadReqs ==
    { Upload("a.txt", pl, e) : pl \in Payloads, e \in ValidExps }
        \cup { Upload("b.txt", <<None, <<>>>>, e) : e \in ValidExps }
        \cup { Upload("a.txt", <<Some("text/plain"), <<7, 8, 9>>>>, e) :
                  e \in InvalidExps }

ByIdReqs ==
    { [NoArgs EXCEPT !.name = n, !.file_id = i] :
        n \in {"download", "delete"}, i \in Ids }

ByNameReqs ==
    { [NoArgs EXCEPT !.name = n, !.filename = f] :
        n \in {"list_by_name", "download_by_name", "delete_by_name"},
        f \in Filenames }

ListReqs == { [NoArgs EXCEPT !.name = "list"] }

Requests == UploadReqs \cup ByIdReqs \cup ByNameReqs \cup ListReqs

\* The uploads of the concurrent runs.
ConcUploads ==
    { r \in UploadReqs :
        /\ r.content_type = Some("text/plain")
        /\ r.content = <<7, 8, 9>>
        /\ r.filename = "a.txt"
        /\ r.exp \in {None, Some(0), Some(1)} }

ConcRequests ==
    ConcUploads \cup ByIdReqs \cup ListReqs
        \cup { r \in ByNameReqs : r.filename = "a.txt" }

NoLoc == [now |-> 0, rows |-> {}, cur |-> 0, removed |-> 0, file_id |-> 0,
          size |-> 0, created_at |-> 0, expires_at |-> None, row |-> None,
          count |-> 0]

NoRes == [status |-> "none", body |-> <<>>]
NoTxn == [ins |-> {}, del |-> {}]

\* A row of table files (init_storage); path is OBJECTS_DIR / id.
Row(id, filename, content_type, size, created_at, expires_at) ==
    [id |-> id, filename |-> filename, content_type |-> content_type,
     size |-> size, path |-> id, created_at |-> created_at,
     expires_at |-> expires_at]

RowIds(rows) == { r.id : r \in rows }

----------------------------------------------------------------------------
\* What history records for an identifier: the upload's arguments, whether its
\* row was ever committed, and which code unlinked its blob or staged the
\* deletion of its row.
NoHist == [used |-> FALSE, filename |-> "", content_type |-> None,
           content |-> <<>>, exp |-> None, committed |-> FALSE,
           created_at |-> 0, removers |-> {}]

Init ==
    /\ clock = 0
    /\ files = {}
    /\ blobs = [i \in Ids |-> None]
    /\ nextId = 1
    /\ dbLock = NoProc
    /\ txn = [p \in Procs |-> NoTxn]
    /\ pc = [p \in Procs |-> "idle"]
    /\ op = [p \in Procs |-> NoArgs]
    /\ loc = [p \in Procs |-> NoLoc]
    /\ res = [p \in Procs |-> NoRes]
    /\ hist = [i \in Ids |-> NoHist]
    /\ served = 0

----------------------------------------------------------------------------
\* Helpers shared by the handlers.

\* An unlink that removes nothing.
UnlinkedNothing(dir, path) == dir

\* Path(path).unlink(missing_ok=True)
Unlinked(dir, path) == [dir EXCEPT ![path] = None]

\* An existence check that every path passes.
ExistsAlways(dir, path) == TRUE

\* file_path.exists()
Exists(dir, path) == dir[path] # None

\* The write lock is free for connection p (or p holds it already).
CanWrite(p) == dbLock \in {NoProc, p}

\* A commit that loses the staged DELETEs.
CommittedKeepsRows(p) == files \cup txn[p].ins

\* conn.commit(): the table after p's staged changes are published.
Committed(p) == { r \in files : r.id \notin txn[p].del } \cup txn[p].ins

Marked(h, ids, who) ==
    [i \in Ids |-> IF i \in ids
                   THEN [h[i] EXCEPT !.removers = @ \cup {who}]
                   ELSE h[i]]

\* The request ends: its response is set and its locals are dropped.
Finish(p, status, body) ==
    /\ pc' = [pc EXCEPT ![p] = "done"]
    /\ loc' = [loc EXCEPT ![p] = NoLoc]
    /\ res' = [res EXCEPT ![p] = [status |-> status, body |-> body]]

\* The first statement of each endpoint after cleanup_expired() returns.
Body(name) ==
    CASE name = "upload" -> "save_check"
      [] name = "list" -> "list_select"
      [] name = "download" -> "get_file_row"
      [] name = "list_by_name" -> "get_files_by_name"
      [] name = "download_by_name" -> "get_latest_file_by_name"
      [] name = "delete" -> "delete_select"
      [] name = "delete_by_name" -> "delete_name_select"

\* Uploads that will still draw an identifier.
PendingUploads ==
    { q \in Procs :
        /\ op[q].name = "upload"
        /\ pc[q] \in {"cleanup_select", "cleanup_loop", "cleanup_delete",
                      "save_check"}
        /\ (op[q].exp = None \/ op[q].exp[1] > 0) }

----------------------------------------------------------------------------
\* A request arrives; its handler calls cleanup_expired(), which reads the
\* clock first.
Request(p, reqs, max) ==
    /\ pc[p] \in {"idle", "done"}
    /\ served < max
    /\ served' = served + 1
    /\ \E r \in reqs :
          /\ (r.name = "upload" /\ (r.exp = None \/ r.exp[1] > 0))
                => nextId + Cardinality(PendingUploads) <= MaxIds
          /\ op' = [op EXCEPT ![p] = r]
    /\ pc' = [pc EXCEPT ![p] = "cleanup_select"]
    /\ loc' = [loc EXCEPT ![p] = [NoLoc EXCEPT !.now = clock]]
    /\ res' = [res EXCEPT ![p] = NoRes]
    /\ UNCHANGED <<clock, files, blobs, nextId, dbLock, txn, hist>>

\* The expiry scan without "expires_at IS NOT NULL".
FindExpiredOrNull(rows, now) ==
    { r \in rows : r.expires_at = None \/ r.expires_at[1] <= now }

\* The expiry scan with "= ?" where the code has "<= ?".
FindExpiredAtNow(rows, now) ==
    { r \in rows : r.expires_at # None /\ r.expires_at[1] = now }

\* The expiry scan with "< ?" where the code has "<= ?".
FindExpiredBefore(rows, now) ==
    { r \in rows : r.expires_at # None /\ r.expires_at[1] < now }

\* The expiry scan without "expires_at <= ?".
FindExpiredAnyTtl(rows, now) == { r \in rows : r.expires_at # None }

\* SELECT id, path FROM files WHERE expires_at IS NOT NULL AND expires_at <= ?
FindExpired(rows, now) ==
    { r \in rows : r.expires_at # None /\ r.expires_at[1] <= now }

CleanupSelect(p) ==
    /\ pc[p] = "cleanup_select"
    /\ loc' = [loc EXCEPT ![p].rows = RowIds(FindExpired(files, loc[p].now))]
    /\ pc' = [pc EXCEPT ![p] = "cleanup_loop"]
    /\ UNCHANGED <<clock, files, blobs, nextId, dbLock, txn, op,
                   res, hist, served>>

\* for file_id, path in rows: Path(path).unlink(missing_ok=True)
CleanupUnlink(p) ==
    /\ pc[p] = "cleanup_loop"
    /\ \E i \in loc[p].rows :
          /\ blobs' = Unlinked(blobs, i)
          /\ hist' = Marked(hist, {i}, "cleanup")
          /\ loc' = [loc EXCEPT ![p].rows = @ \ {i}, ![p].cur = i]
    /\ pc' = [pc EXCEPT ![p] = "cleanup_delete"]
    /\ UNCHANGED <<clock, files, nextId, dbLock, txn, op, res, served>>

\* conn.execute("DELETE FROM files WHERE id = ?"); removed += 1
CleanupDelete(p) ==
    /\ pc[p] = "cleanup_delete"
    /\ CanWrite(p)
    /\ dbLock' = p
    /\ txn' = [txn EXCEPT ![p].del = @ \cup {loc[p].cur}]
    /\ loc' = [loc EXCEPT ![p].removed = @ + 1, ![p].cur = 0]
    /\ pc' = [pc EXCEPT ![p] = "cleanup_loop"]
    /\ UNCHANGED <<clock, files, blobs, nextId, op, res, hist, served>>

\* conn.commit(); return removed -- and the endpoint goes on with its body.
CleanupCommit(p) ==
    /\ pc[p] = "cleanup_loop"
    /\ loc[p].rows = {}
    /\ files' = Committed(p)
    /\ dbLock' = IF dbLock = p THEN NoProc ELSE dbLock
    /\ txn' = [txn EXCEPT ![p] = NoTxn]
    /\ pc' = [pc EXCEPT ![p] = Body(op[p].name)]
    /\ UNCHANGED <<clock, blobs, nextId, op, loc, res, hist, served>>

----------------------------------------------------------------------------
\* save_upload

\* The TTL check with "< 0" where the code has "<= 0".
InvalidExpNegative(exp) == exp # None /\ exp[1] < 0

\* exp_seconds is not None and exp_seconds <= 0
InvalidExp(exp) == exp # None /\ exp[1] <= 0

\* A copy that reads one chunk and stops.
ReadFirstChunkOnly(stream, pos) ==
    IF pos = 0 THEN SubSeq(stream, 1, Min(ChunkSize, Len(stream))) ELSE <<>>

\* upload.file.read(1024 * 1024) with the stream at position pos
ReadChunk(stream, pos) ==
    SubSeq(stream, pos + 1, Min(pos + ChunkSize, Len(stream)))

\* A write that starts at offset 0 every time.
WrittenOver(dir, path, chunk) ==
    [dir EXCEPT ![path] = IF @ = None THEN None ELSE Some(chunk)]

\* out_file.write(chunk)
Written(dir, path, chunk) ==
    [dir EXCEPT ![path] = IF @ = None THEN None ELSE Some(@[1] \o chunk)]

\* An expiry that takes the TTL for the absolute time.
ExpiresAtTtlOnly(created_at, exp) ==
    IF exp # None THEN Some(exp[1]) ELSE None

\* expires_at = created_at + exp_seconds if exp_seconds is not None else None
ExpiresAt(created_at, exp) ==
    IF exp # None THEN Some(created_at + exp[1]) ELSE None

\* The TTL check, then uuid4() and target_path.open("wb").
SaveCheck(p) ==
    /\ pc[p] = "save_check"
    /\ IF InvalidExp(op[p].exp)
       THEN /\ Finish(p, "InvalidArgument", <<>>)
            /\ UNCHANGED <<blobs, nextId, hist>>
       ELSE /\ nextId <= MaxIds
            /\ nextId' = nextId + 1
            /\ blobs' = [blobs EXCEPT ![nextId] = Some(<<>>)]
            /\ hist' = [hist EXCEPT ![nextId] =
                          [NoHist EXCEPT !.used = TRUE,
                                         !.filename = op[p].filename,
                                         !.content_type = op[p].content_type,
                                         !.content = op[p].content,
                                         !.exp = op[p].exp]]
            /\ loc' = [loc EXCEPT ![p].file_id = nextId, ![p].size = 0]
            /\ pc' = [pc EXCEPT ![p] = "save_copy"]
            /\ res' = res
    /\ UNCHANGED <<clock, files, dbLock, txn, op, served>>

\* One turn of the copy loop; an empty chunk ends it and closes the file.
SaveCopy(p) ==
    /\ pc[p] = "save_copy"
    /\ LET chunk == ReadChunk(op[p].content, loc[p].size) IN
         IF chunk = <<>>
         THEN /\ pc' = [pc EXCEPT ![p] = "save_time"]
              /\ UNCHANGED <<blobs, loc>>
         ELSE /\ blobs' = Written(blobs, loc[p].file_id, chunk)
              /\ loc' = [loc EXCEPT ![p].size = @ + Len(chunk)]
              /\ pc' = pc
    /\ UNCHANGED <<clock, files, nextId, dbLock, txn, op, res, hist, served>>

\* created_at = int(time.time()); expires_at = ...
SaveTime(p) ==
    /\ pc[p] = "save_time"
    /\ loc' = [loc EXCEPT ![p].created_at = clock,
                          ![p].expires_at = ExpiresAt(clock, op[p].exp)]
    /\ pc' = [pc EXCEPT ![p] = "save_insert"]
    /\ UNCHANGED <<clock, files, blobs, nextId, dbLock, txn, op,
                   res, hist, served>>

\* INSERT INTO files (...) VALUES (...)
SaveInsert(p) ==
    /\ pc[p] = "save_insert"
    /\ CanWrite(p)
    /\ dbLock' = p
    /\ txn' = [txn EXCEPT ![p].ins =
                 {Row(loc[p].file_id, op[p].filename, op[p].content_type,
                      loc[p].size, loc[p].created_at, loc[p].expires_at)}]
    /\ pc' = [pc EXCEPT ![p] = "save_commit"]
    /\ UNCHANGED <<clock, files, blobs, nextId, op, loc, res, hist, served>>

\* conn.commit(); return {...}
SaveCommit(p) ==
    /\ pc[p] = "save_commit"
    /\ files' = Committed(p)
    /\ dbLock' = NoProc
    /\ txn' = [txn EXCEPT ![p] = NoTxn]
    /\ hist' = [hist EXCEPT ![loc[p].file_id].committed = TRUE,
                            ![loc[p].file_id].created_at = loc[p].created_at]
    /\ Finish(p, "OK",
              <<[id |-> loc[p].file_id, filename |-> op[p].filename,
                 content_type |-> op[p].content_type, size |-> loc[p].size,
                 created_at |-> loc[p].created_at,
                 expires_at |-> loc[p].expires_at]>>)
    /\ UNCHANGED <<clock, blobs, nextId, op, served>>

\* The upload's worker dies or its request is cancelled somewhere between
\* opening the blob file and conn.commit(): an open transaction is rolled
\* back, the file stays as far as it was written.
UploadCrash(p) ==
    /\ pc[p] \in {"save_copy", "save_time", "save_insert", "save_commit"}
    /\ dbLock' = IF dbLock = p THEN NoProc ELSE dbLock
    /\ txn' = [txn EXCEPT ![p] = NoTxn]
    /\ Finish(p, "Crashed", <<>>)
    /\ UNCHANGED <<clock, files, blobs, nextId, op, hist, served>>

----------------------------------------------------------------------------
\* Catalog queries.

\* The fields the list endpoints return for a row.
Item(r) ==
    [id |-> r.id, filename |-> r.filename, content_type |-> r.content_type,
     size |-> r.size, created_at |-> r.created_at, expires_at |-> r.expires_at]

\* ORDER BY created_at ASC.
OrderByCreatedAsc(rows) ==
    { s \in [1 .. Cardinality(rows) -> rows] :
        /\ \A i, j \in DOMAIN s : i # j => s[i] # s[j]
        /\ \A i, j \in DOMAIN s : i < j => s[i].created_at <= s[j].created_at }

\* ORDER BY created_at DESC: every order of the rows that the sort key
\* allows (SQL leaves the order of equal keys open).
OrderByCreatedDesc(rows) ==
    { s \in [1 .. Cardinality(rows) -> rows] :
        /\ \A i, j \in DOMAIN s : i # j => s[i] # s[j]
        /\ \A i, j \in DOMAIN s : i < j => s[i].created_at >= s[j].created_at }

\* A lookup by id that finds nothing.
get_no_file_row(rows, file_id) == {None}

\* SELECT ... FROM files WHERE id = ?  -- fetchone()
get_file_row(rows, file_id) ==
    { Some(r) : r \in { x \in rows : x.id = file_id } }
        \cup (IF \E x \in rows : x.id = file_id THEN {} ELSE {None})

\* SELECT ... FROM files WHERE filename = ? ORDER BY created_at DESC
get_files_by_name(rows, filename) ==
    OrderByCreatedDesc({ r \in rows : r.filename = filename })

\* ... ORDER BY created_at DESC LIMIT 1  -- fetchone()
get_latest_file_by_name(rows, filename) ==
    { IF s = <<>> THEN None ELSE Some(s[1]) :
        s \in OrderByCreatedDesc({ r \in rows : r.filename = filename }) }

\* list_files: SELECT ... FROM files ORDER BY created_at DESC
ListSelect(p) ==
    /\ pc[p] = "list_select"
    /\ \E s \in OrderByCreatedDesc(files) :
          Finish(p, "OK", [i \in DOMAIN s |-> Item(s[i])])
    /\ UNCHANGED <<clock, files, blobs, nextId, dbLock, txn, op, hist, served>>

\* list_files_by_name: rows = get_files_by_name(filename); 404 if empty
ListByName(p) ==
    /\ pc[p] = "get_files_by_name"
    /\ \E s \in get_files_by_name(files, op[p].filename) :
          IF s = <<>>
          THEN Finish(p, "NotFound", <<>>)
          ELSE Finish(p, "OK", [i \in DOMAIN s |-> Item(s[i])])
    /\ UNCHANGED <<clock, files, blobs, nextId, dbLock, txn, op, hist, served>>

\* download_file: row = get_file_row(file_id); 404 if there is none
DownloadRow(p) ==
    /\ pc[p] = "get_file_row"
    /\ \E row \in get_file_row(files, op[p].file_id) :
          IF row = None
          THEN Finish(p, "NotFound", <<>>)
          ELSE /\ loc' = [loc EXCEPT ![p].row = row]
               /\ pc' = [pc EXCEPT ![p] = "exists"]
               /\ res' = res
    /\ UNCHANGED <<clock, files, blobs, nextId, dbLock, txn, op, hist, served>>

\* download_file_by_name: row = get_latest_file_by_name(filename); 404 if none
DownloadLatest(p) ==
    /\ pc[p] = "get_latest_file_by_name"
    /\ \E row \in get_latest_file_by_name(files, op[p].filename) :
          IF row = None
          THEN Finish(p, "NotFound", <<>>)
          ELSE /\ loc' = [loc EXCEPT ![p].row = row]
               /\ pc' = [pc EXCEPT ![p] = "exists"]
               /\ res' = res
    /\ UNCHANGED <<clock, files, blobs, nextId, dbLock, txn, op, hist, served>>

\* if not file_path.exists(): 404
DownloadExists(p) ==
    /\ pc[p] = "exists"
    /\ IF Exists(blobs, loc[p].row[1].path)
       THEN /\ pc' = [pc EXCEPT ![p] = "file_response"]
            /\ UNCHANGED <<loc, res>>
       ELSE Finish(p, "NotFound", <<>>)
    /\ UNCHANGED <<clock, files, blobs, nextId, dbLock, txn, op, hist, served>>

\* return FileResponse(path=..., filename=..., media_type=...): the response
\* stats and opens the file when it is sent; a file that is gone by then
\* raises (a server error), an opened file is read to its end.
FileResponse(p) ==
    /\ pc[p] = "file_response"
    /\ LET row == loc[p].row[1] IN
         IF Exists(blobs, row.path)
         THEN Finish(p, "OK", <<[path |-> row.path, filename |-> row.filename,
                                 media_type |-> row.content_type,
                                 content |-> blobs[row.path][1]]>>)
         ELSE Finish(p, "ServerError", <<>>)
    /\ UNCHANGED <<clock, files, blobs, nextId, dbLock, txn, op, hist, served>>

----------------------------------------------------------------------------
\* delete_file_row

\* SELECT path FROM files WHERE id = ?; return False -> 404
DeleteSelect(p) ==
    /\ pc[p] = "delete_select"
    /\ \E row \in get_file_row(files, op[p].file_id) :
          IF row = None
          THEN Finish(p, "NotFound", <<>>)
          ELSE /\ loc' = [loc EXCEPT ![p].row = row]
               /\ pc' = [pc EXCEPT ![p] = "delete_unlink"]
               /\ res' = res
    /\ UNCHANGED <<clock, files, blobs, nextId, dbLock, txn, op, hist, served>>

\* Path(path).unlink(missing_ok=True)
DeleteUnlink(p) ==
    /\ pc[p] = "delete_unlink"
    /\ blobs' = Unlinked(blobs, loc[p].row[1].path)
    /\ hist' = Marked(hist, {loc[p].row[1].id}, "delete")
    /\ pc' = [pc EXCEPT ![p] = "delete_row"]
    /\ UNCHANGED <<clock, files, nextId, dbLock, txn, op, loc, res, served>>

\* DELETE FROM files WHERE id = ?
DeleteRow(p) ==
    /\ pc[p] = "delete_row"
    /\ CanWrite(p)
    /\ dbLock' = p
    /\ txn' = [txn EXCEPT ![p].del = @ \cup {op[p].file_id}]
    /\ pc' = [pc EXCEPT ![p] = "delete_commit"]
    /\ UNCHANGED <<clock, files, blobs, nextId, op, loc, res, hist, served>>

\* conn.commit(); return True -> {"deleted": True}
DeleteCommit(p) ==
    /\ pc[p] = "delete_commit"
    /\ files' = Committed(p)
    /\ dbLock' = NoProc
    /\ txn' = [txn EXCEPT ![p] = NoTxn]
    /\ Finish(p, "OK", <<>>)
    /\ UNCHANGED <<clock, blobs, nextId, op, hist, served>>

----------------------------------------------------------------------------
\* delete_files_by_name

\* SELECT id, path FROM files WHERE filename = ?; return 0 -> 404
DeleteNameSelect(p) ==
    /\ pc[p] = "delete_name_select"
    /\ LET rows == { r \in files : r.filename = op[p].filename } IN
         IF rows = {}
         THEN Finish(p, "NotFound", <<>>)
         ELSE /\ loc' = [loc EXCEPT ![p].rows = RowIds(rows),
                                    ![p].count = Cardinality(rows)]
              /\ pc' = [pc EXCEPT ![p] = "delete_name_unlink"]
              /\ res' = res
    /\ UNCHANGED <<clock, files, blobs, nextId, dbLock, txn, op, hist, served>>

\* for _file_id, path in rows: Path(path).unlink(missing_ok=True)
DeleteNameUnlink(p) ==
    /\ pc[p] = "delete_name_unlink"
    /\ \E i \in loc[p].rows :
          /\ blobs' = Unlinked(blobs, i)
          /\ hist' = Marked(hist, {i}, "delete_by_name")
          /\ loc' = [loc EXCEPT ![p].rows = @ \ {i}]
    /\ UNCHANGED <<clock, files, nextId, dbLock, txn, pc, op, res, served>>

\* DELETE FROM files WHERE filename = ?
DeleteNameRows(p) ==
    /\ pc[p] = "delete_name_unlink"
    /\ loc[p].rows = {}
    /\ CanWrite(p)
    /\ dbLock' = p
    /\ LET ids == RowIds({ r \in files : r.filename = op[p].filename }) IN
         /\ txn' = [txn EXCEPT ![p].del = @ \cup ids]
         /\ hist' = Marked(hist, ids, "delete_by_name")
    /\ pc' = [pc EXCEPT ![p] = "delete_name_commit"]
    /\ UNCHANGED <<clock, files, blobs, nextId, op, loc, res, served>>

\* conn.commit(); return len(rows) -> {"deleted": True, "count": ...}
DeleteNameCommit(p) ==
    /\ pc[p] = "delete_name_commit"
    /\ files' = Committed(p)
    /\ dbLock' = NoProc
    /\ txn' = [txn EXCEPT ![p] = NoTxn]
    /\ Finish(p, "OK", <<loc[p].count>>)
    /\ UNCHANGED <<clock, blobs, nextId, op, hist, served>>

----------------------------------------------------------------------------
\* The environment.

\* A second passes.
Tick ==
    /\ clock < MaxClock
    /\ clock' = clock + 1
    /\ UNCHANGED <<files, blobs, nextId, dbLock, txn, pc, op, loc,
                   res, hist, served>>

\* Something outside the program removes the blob file of a cataloged object.
ExternalRemove ==
    /\ \E r \in files :
          /\ Exists(blobs, r.path)
          /\ blobs' = Unlinked(blobs, r.path)
          /\ hist' = Marked(hist, {r.id}, "external")
    /\ UNCHANGED <<clock, files, nextId, dbLock, txn, pc, op,
                   loc, res, served>>

----------------------------------------------------------------------------
Step(p, reqs, max) ==
    \/ Request(p, reqs, max)
    \/ CleanupSelect(p) \/ CleanupUnlink(p) \/ CleanupDelete(p)
    \/ CleanupCommit(p)
    \/ SaveCheck(p) \/ SaveCopy(p) \/ SaveTime(p) \/ SaveInsert(p)
    \/ SaveCommit(p) \/ UploadCrash(p)
    \/ ListSelect(p) \/ ListByName(p)
    \/ DownloadRow(p) \/ DownloadLatest(p) \/ DownloadExists(p)
    \/ FileResponse(p)
    \/ DeleteSelect(p) \/ DeleteUnlink(p) \/ DeleteRow(p) \/ DeleteCommit(p)
    \/ DeleteNameSelect(p) \/ DeleteNameUnlink(p) \/ DeleteNameRows(p)
    \/ DeleteNameCommit(p)

\* Requests handled concurrently.
Next ==
    \/ \E p \in Procs : Step(p, ConcRequests, MaxRequests)
    \/ Tick
    \/ ExternalRemove

Spec == Init /\ [][Next]_vars

\* Requests handled one at a time.
SeqNext == Step("r1", Requests, MaxSeqRequests) \/ Tick \/ ExternalRemove

SpecSeq == Init /\ [][SeqNext]_vars

----------------------------------------------------------------------------
\* Vocabulary of the properties.

\* Request p takes a step.
Stepped(p) == pc'[p] # pc[p] \/ loc'[p] # loc[p] \/ res'[p] # res[p]

\* Request p executes the last statement of its handler.
Finishes(p) == pc[p] \notin {"idle", "done"} /\ pc'[p] = "done"

InCleanup(p) == pc[p] \in {"cleanup_select", "cleanup_loop", "cleanup_delete"}

HasRow(rows, i) == \E r \in rows : r.id = i

\* The ids in a list response.
Listed(r) == { r.body[k].id : k \in DOMAIN r.body }

\* Request p has unlinked the blob of id i and has not yet committed the
\* deletion of its row.
BetweenUnlinkAndCommit(p, i) ==
    \/ pc[p] = "cleanup_delete" /\ loc[p].cur = i
    \/ pc[p] \in {"cleanup_loop", "cleanup_delete"} /\ i \in txn[p].del
    \/ pc[p] \in {"delete_row", "delete_commit"} /\ op[p].file_id = i
    \/ /\ pc[p] \in {"delete_name_unlink", "delete_name_commit"}
       /\ "delete_by_name" \in hist[i].removers
       /\ i \notin loc[p].rows

----------------------------------------------------------------------------
\* C1 (as stated): in every reachable state, intermediate steps of upload,
\* delete and the Reaper included, every catalog row has a blob file at its
\* path unless the file was removed externally.
C1_RowHasBlobAtEveryStep ==
    \A r \in files :
        Exists(blobs, r.path) \/ "external" \in hist[r.id].removers

\* C1 (amended): every catalog row has a blob file at its path unless the
\* file was removed externally, or a delete-by-id, delete-by-name or Reaper
\* pass has unlinked it and has not yet committed the deletion of the row.
C1_RowHasBlobOutsideDeletes ==
    \A r \in files :
        \/ Exists(blobs, r.path)
        \/ "external" \in hist[r.id].removers
        \/ \E p \in Procs : BetweenUnlinkAndCommit(p, r.id)

\* A row whose blob a running delete has unlinked, its row not yet deleted.
C1_Witness ==
    \E r \in files :
        /\ ~Exists(blobs, r.path)
        /\ "external" \notin hist[r.id].removers
        /\ \E p \in Procs : BetweenUnlinkAndCommit(p, r.id)

----------------------------------------------------------------------------
\* The object under id i was committed with a TTL and the clock value t is
\* past its expires_at = created_at + ttl.
PastExpiry(i, t) ==
    /\ hist[i].committed
    /\ hist[i].exp # None
    /\ t > hist[i].created_at + hist[i].exp[1]

\* The response rp of request rq does not hand out object i.
NotReturned(rq, rp, i) ==
    CASE rq.name = "download" -> rq.file_id = i => rp.status = "NotFound"
      [] rq.name = "download_by_name" ->
            rp.status # "OK" \/ rp.body[1].path # i
      [] rq.name \in {"list", "list_by_name"} -> i \notin Listed(rp)
      [] OTHER -> TRUE

\* C2: an object uploaded with a TTL is not returned by any download or
\* listing that starts when the clock is past its expires_at (download by id
\* reports not-found, as do the by-name operations when every object of that
\* name is past its expiry), and a Reaper pass run at such a time leaves
\* neither its row nor its blob.
C2_ExpiredUnreachable ==
    [][\A p \in Procs :
        /\ Finishes(p) =>
             /\ \A i \in Ids :
                  PastExpiry(i, loc[p].now) => NotReturned(op[p], res'[p], i)
             /\ ( /\ op[p].name \in {"list_by_name", "download_by_name"}
                  /\ \A i \in Ids :
                        (hist[i].committed /\ hist[i].filename = op[p].filename)
                            => PastExpiry(i, loc[p].now) )
                  => res'[p].status = "NotFound"
        /\ (pc[p] = "cleanup_loop" /\ ~InCleanup(p)') =>
             \A i \in Ids :
                PastExpiry(i, loc[p].now) =>
                    ~HasRow(files', i) /\ ~Exists(blobs', i)
      ]_vars

\* A download by id that started past the expiry of a once committed object
\* has ended not-found, and the object's row and blob are gone.
C2_Witness ==
    \E p \in Procs :
        /\ pc[p] = "done"
        /\ op[p].name = "download"
        /\ res[p].status = "NotFound"
        /\ hist[op[p].file_id].committed
        /\ hist[op[p].file_id].exp # None
        /\ hist[op[p].file_id].removers = {"cleanup"}
        /\ ~HasRow(files, op[p].file_id)
        /\ ~Exists(blobs, op[p].file_id)

----------------------------------------------------------------------------
\* The ttlSeconds of an upload is zero or negative.
BadTtl(rq) == rq.name = "upload" /\ rq.exp # None /\ rq.exp[1] < 1

\* C3: an upload with ttlSeconds zero or negative is rejected before any
\* write: no step of the call changes the catalog or the blob directory,
\* also when the catalog holds expired records.
C3_RejectedUploadWritesNothing ==
    [][\A p \in Procs :
        (BadTtl(op[p]) /\ Stepped(p) /\ pc[p] \notin {"idle", "done"})
            => (files' = files /\ blobs' = blobs)
      ]_vars

\* C4: an upload with ttlSeconds zero or negative ends InvalidArgument and
\* no step of it creates a blob file or a catalog row; an upload with
\* ttlSeconds absent or positive is not rejected for its TTL.
C4_InvalidTtlRejected ==
    [][\A p \in Procs :
        /\ (BadTtl(op[p]) /\ Stepped(p) /\ pc[p] \notin {"idle", "done"}) =>
              /\ RowIds(files') \subseteq RowIds(files)
              /\ \A i \in Ids : Exists(blobs', i) => Exists(blobs, i)
              /\ nextId' = nextId
        /\ (op[p].name = "upload" /\ Finishes(p)) =>
              (res'[p].status = "InvalidArgument" <=> BadTtl(op[p]))
      ]_vars

\* An upload with a zero or negative TTL has been rejected while the store
\* holds an object, and no identifier was drawn for it.
C4_Witness ==
    \E p \in Procs :
        /\ pc[p] = "done"
        /\ BadTtl(op[p])
        /\ res[p].status = "InvalidArgument"
        /\ files # {}
        /\ \A i \in Ids :
              hist[i].used => (hist[i].exp = None \/ hist[i].exp[1] > 0)

----------------------------------------------------------------------------
InDownload(p) == pc[p] \in {"get_file_row", "exists", "file_response"}

\* C5 (as stated): a download by id racing with a delete of the same id (the
\* object has no TTL and nothing else removed it) ends with the record and
\* its complete blob, or with NotFound, and in no other way.
C5_DownloadOkOrNotFound ==
    \A p \in Procs :
        ( /\ pc[p] = "done"
          /\ op[p].name = "download"
          /\ hist[op[p].file_id].exp = None
          /\ hist[op[p].file_id].removers \subseteq {"delete"} )
        => \/ res[p].status = "NotFound"
           \/ /\ res[p].status = "OK"
              /\ res[p].body[1].content = hist[op[p].file_id].content

----------------------------------------------------------------------------
\* A row of id i, committed or staged for insert.
Inserted(i) == HasRow(files, i) \/ \E p \in Procs : HasRow(txn[p].ins, i)

C6_Ordered ==
    \A i \in Ids :
        /\ (Inserted(i) /\ hist[i].removers = {})
              => blobs[i] = Some(hist[i].content)
        /\ HasRow(files, i) => hist[i].committed

\* C6: the blob is completely written before the row is inserted, so a crash
\* or cancellation anywhere in an upload leaves no row for the new id, or a
\* row whose blob is fully written; never a row with a missing or partial
\* blob.
C6_CrashLeavesNoDanglingRow ==
    [][/\ C6_Ordered'
       /\ \A p \in Procs :
            (res'[p].status = "Crashed" /\ res[p].status # "Crashed")
                => ~HasRow(files', loc[p].file_id)
      ]_vars

\* An upload crashed in the middle of its copy: a partly written orphan
\* blob, and no row for it.
C6_Witness ==
    \E p \in Procs, i \in Ids :
        /\ res[p].status = "Crashed"
        /\ \A q \in Procs : op[q].name = "upload" => pc[q] = "done"
        /\ hist[i].used /\ ~hist[i].committed
        /\ Exists(blobs, i)
        /\ blobs[i] # Some(hist[i].content)
        /\ ~HasRow(files, i)

----------------------------------------------------------------------------
\* Object i was committed without a TTL, and no explicit delete and no
\* external removal has touched it.
Kept(i) ==
    /\ hist[i].committed
    /\ hist[i].exp = None
    /\ hist[i].removers \cap {"delete", "delete_by_name", "external"} = {}

C7_NeverReaped ==
    \A i \in Ids :
        /\ (hist[i].used /\ hist[i].exp = None) =>
              /\ "cleanup" \notin hist[i].removers
              /\ \A p \in Procs :
                    InCleanup(p) => (i \notin loc[p].rows /\ loc[p].cur # i)
        /\ Kept(i) => (HasRow(files, i) /\ blobs[i] = Some(hist[i].content))

\* C7: an object uploaded without a TTL is never selected or removed by a
\* Reaper pass at any clock value; while no explicit delete and no external
\* removal touches it, its row and blob stay and download by id succeeds.
C7_NoTtlPersists ==
    [][/\ C7_NeverReaped'
       /\ \A p \in Procs :
            ( /\ op[p].name = "download"
              /\ InDownload(p)
              /\ Stepped(p)
              /\ Kept(op[p].file_id) )
            => /\ res'[p].status \notin {"NotFound", "ServerError"}
               /\ Finishes(p) => res'[p].status = "OK"
      ]_vars

\* A no-TTL object is downloaded at the last clock value, after a Reaper
\* pass has reaped another object.
C7_Witness ==
    \E p \in Procs, j \in Ids :
        /\ pc[p] = "done"
        /\ op[p].name = "download"
        /\ res[p].status = "OK"
        /\ Kept(op[p].file_id)
        /\ j # op[p].file_id
        /\ "cleanup" \in hist[j].removers
        /\ ~HasRow(files, j)
        /\ clock = MaxClock

----------------------------------------------------------------------------
\* Object i was committed and nothing has removed its row or blob.
Intact(i) == hist[i].committed /\ hist[i].removers = {}

C8_Recorded ==
    /\ \A r \in files :
          /\ r.size = Len(hist[r.id].content)
          /\ r.filename = hist[r.id].filename
          /\ r.content_type = hist[r.id].content_type
    /\ \A p \in Procs :
          (pc[p] = "done" /\ op[p].name = "upload" /\ res[p].status = "OK")
          => /\ res[p].body[1].size = Len(op[p].content)
             /\ hist[res[p].body[1].id].content = op[p].content
             /\ hist[res[p].body[1].id].filename = op[p].filename
             /\ hist[res[p].body[1].id].content_type = op[p].content_type

\* C8: a download by the id an upload returned, with no delete, expiry or
\* external removal in between, yields the uploaded bytes, filename and
\* content type, and the record's size is the number of bytes uploaded, for
\* the empty content and for content longer than one copy chunk alike.
C8_RoundTrip ==
    [][/\ C8_Recorded'
       /\ \A p \in Procs :
            ( /\ op[p].name = "download"
              /\ InDownload(p)
              /\ Stepped(p)
              /\ Intact(op[p].file_id) )
            => /\ res'[p].status \notin {"NotFound", "ServerError"}
               /\ Finishes(p) =>
                    /\ res'[p].status = "OK"
                    /\ res'[p].body[1].content = hist[op[p].file_id].content
                    /\ res'[p].body[1].filename = hist[op[p].file_id].filename
                    /\ res'[p].body[1].media_type
                           = hist[op[p].file_id].content_type
      ]_vars

\* A download has returned a content longer than one copy chunk.
C8_Witness ==
    \E p \in Procs :
        /\ pc[p] = "done"
        /\ op[p].name = "download"
        /\ res[p].status = "OK"
        /\ Intact(op[p].file_id)
        /\ Len(res[p].body[1].content) > ChunkSize
        /\ res[p].body[1].content = hist[op[p].file_id].content

----------------------------------------------------------------------------
\* A delete by id of i has succeeded before (sequentially: its row is gone).
DeletedBefore(i) == "delete" \in hist[i].removers /\ ~HasRow(files, i)

\* What holds of every step of a delete by id, whatever the Reaper does.
C9_Outcome(p) ==
    /\ pc[p] = "delete_select" =>
          /\ res'[p].status = "NotFound" <=> ~HasRow(files, op[p].file_id)
          /\ files' = files /\ blobs' = blobs
    /\ Finishes(p) =>
          /\ res'[p].status \in {"OK", "NotFound"}
          /\ DeletedBefore(op[p].file_id) => res'[p].status = "NotFound"
          /\ ~HasRow(files', op[p].file_id)
          /\ res'[p].status = "OK" => ~Exists(blobs', op[p].file_id)

\* C9 (as stated): the first DeleteByID succeeds and removes row and blob;
\* the second reports NotFound, raises nothing else and leaves the catalog
\* and the blob directory unchanged; DeleteByID reports NotFound exactly when
\* no row of the id is in the catalog after the Reaper pass.
C9_SecondDeleteChangesNothing ==
    [][\A p \in Procs :
        (op[p].name = "delete" /\ Stepped(p) /\ pc[p] \notin {"idle", "done"})
        => /\ C9_Outcome(p)
           /\ DeletedBefore(op[p].file_id)
                 => (files' = files /\ blobs' = blobs)
      ]_vars

\* C9 (amended): as stated, except that the second DeleteByID leaves the
\* catalog and the blob directory unchanged apart from the expired records
\* (rows with expires_at <= now, and their blobs) that its Reaper pass
\* removes.
C9_SecondDeleteOnlyReaps ==
    [][\A p \in Procs :
        (op[p].name = "delete" /\ Stepped(p) /\ pc[p] \notin {"idle", "done"})
        => /\ C9_Outcome(p)
           /\ (DeletedBefore(op[p].file_id) /\ ~InCleanup(p))
                 => (files' = files /\ blobs' = blobs)
           /\ (DeletedBefore(op[p].file_id) /\ InCleanup(p))
                 => /\ files' \subseteq files
                    /\ \A r \in files \ files' :
                          r.expires_at # None
                             /\ r.expires_at[1] <= loc[p].now
                    /\ \A i \in Ids :
                          blobs'[i] # blobs[i] =>
                             \E r \in files :
                                /\ r.id = i
                                /\ r.expires_at # None
                                /\ r.expires_at[1] <= loc[p].now
                                /\ blobs'[i] = None
      ]_vars

\* The second delete of an id whose first delete succeeded has ended
\* NotFound, and its Reaper pass has removed another, expired object.
C9_Witness ==
    \E p \in Procs, j \in Ids :
        /\ pc[p] = "done"
        /\ op[p].name = "delete"
        /\ res[p].status = "NotFound"
        /\ hist[op[p].file_id].committed
        /\ hist[op[p].file_id].removers = {"delete"}
        /\ hist[j].removers = {"cleanup"}
        /\ ~HasRow(files, j)
        /\ served = MaxSeqRequests

----------------------------------------------------------------------------
Named(rows, f) == { r \in rows : r.filename = f }

DistinctTimes(rows) ==
    \A x, y \in rows : x # y => x.created_at # y.created_at

\* Sequence s lists exactly the rows (or list items) with the ids of rows,
\* each once, strictly newest first.
NewestFirst(s, rows) ==
    /\ Len(s) = Cardinality(rows)
    /\ { s[k].id : k \in DOMAIN s } = RowIds(rows)
    /\ \A k \in DOMAIN s : \E r \in rows :
          r.id = s[k].id /\ r.created_at = s[k].created_at
    /\ \A k \in 1 .. Len(s) - 1 : s[k].created_at > s[k + 1].created_at

C10_Queries ==
    \A f \in Filenames :
        DistinctTimes(Named(files, f)) =>
            \A s \in get_files_by_name(files, f) :
                /\ NewestFirst(s, Named(files, f))
                /\ \A l \in get_latest_file_by_name(files, f) :
                      IF Named(files, f) = {}
                      THEN l = None
                      ELSE /\ l = Some(s[1])
                           /\ \A r \in Named(files, f) :
                                 r.created_at <= l[1].created_at

\* C10: over records of one filename with pairwise different created_at,
\* GetByName returns exactly those records, newest first, GetLatestByName
\* returns the one with the greatest created_at, and that is the first
\* element of GetByName's result.
C10_ByNameOrdering ==
    [][/\ C10_Queries'
       /\ \A p \in Procs :
            (Stepped(p) /\ DistinctTimes(Named(files, op[p].filename))) =>
               /\ (pc[p] = "get_files_by_name"
                      /\ Named(files, op[p].filename) # {}) =>
                     /\ res'[p].status = "OK"
                     /\ NewestFirst(res'[p].body, Named(files, op[p].filename))
               /\ (pc[p] = "get_latest_file_by_name"
                      /\ Named(files, op[p].filename) # {}) =>
                     /\ loc'[p].row # None
                     /\ loc'[p].row[1].filename = op[p].filename
                     /\ \A r \in Named(files, op[p].filename) :
                           r.created_at <= loc'[p].row[1].created_at
      ]_vars

\* A by-name listing has returned two records of different created_at.
C10_Witness ==
    \E p \in Procs :
        /\ pc[p] = "done"
        /\ op[p].name = "list_by_name"
        /\ res[p].status = "OK"
        /\ Len(res[p].body) = 2
        /\ res[p].body[1].created_at > res[p].body[2].created_at
        /\ res[p].body[1].id > res[p].body[2].id

----------------------------------------------------------------------------
\* Request p is a download, by id or by name.
IsDownload(p) == op[p].name \in {"download", "download_by_name"}

\* The catalog holds no row for what download p asks for.
NoRowFor(p) ==
    IF op[p].name = "download"
    THEN ~HasRow(files, op[p].file_id)
    ELSE \A r \in files : r.filename # op[p].filename

NotFoundResponse == [status |-> "NotFound", body |-> <<>>]

\* C11: a download, by id or by name, that finds the row of its object (for
\* the by-name download: the latest row of the filename) while the blob file
\* is absent ends with NotFound, the very response it gives when there is no
\* row at all; a download that succeeds returns the complete content, never
\* an empty or partial one.
C11_OrphanIsNotFound ==
    [][\A p \in Procs :
        (IsDownload(p) /\ Stepped(p)) =>
          /\ pc[p] \in {"get_file_row", "get_latest_file_by_name"} =>
               IF NoRowFor(p)
               THEN res'[p] = NotFoundResponse /\ pc'[p] = "done"
               ELSE /\ pc'[p] = "exists"
                    /\ loc'[p].row # None
                    /\ loc'[p].row[1] \in files
                    /\ res'[p] = NoRes
          /\ (pc[p] = "exists" /\ blobs[loc[p].row[1].path] = None) =>
               res'[p] = NotFoundResponse /\ pc'[p] = "done"
          /\ (Finishes(p) /\ res'[p].status = "OK") =>
               /\ blobs[res'[p].body[1].path] # None
               /\ res'[p].body[1].content
                     = hist[res'[p].body[1].path].content
      ]_vars

\* A download, by id or by the name of its only record, has ended NotFound
\* for a record whose row is in the catalog and whose blob file was removed
\* from outside.
C11_Witness ==
    /\ pc["r1"] = "done"
    /\ IsDownload("r1")
    /\ res["r1"] = NotFoundResponse
    /\ \E r \in files :
          /\ IF op["r1"].name = "download"
             THEN r.id = op["r1"].file_id
             ELSE /\ r.filename = op["r1"].filename
                  /\ \A x \in files : x.filename = r.filename => x = r
          /\ blobs[r.path] = None
          /\ hist[r.id].removers = {"external"}

----------------------------------------------------------------------------
\* Row r has expires_at set and expires_at <= t.
ExpiredAt(r, t) == r.expires_at # None /\ r.expires_at[1] <= t

\* Request p is past its Reaper pass and not yet answered.
InBody(p) == pc[p] \notin {"idle", "done"} /\ ~InCleanup(p)

\* While a request is in the body of its operation, the catalog holds no
\* row that was expired at the clock value its Reaper pass read.
C12_BodyAfterPass ==
    \A p \in Procs :
        InBody(p) => \A r \in files : ~ExpiredAt(r, loc[p].now)

\* C12: every operation starts with a Reaper pass, which reads the clock
\* (now) and is complete before the operation's own statements run; with no
\* concurrent operation the completed pass leaves no row with expires_at set
\* and expires_at <= now, and List() returns no record with expires_at <= now.
C12_ReaperRunsFirst ==
    [][/\ C12_BodyAfterPass'
       /\ \A p \in Procs :
            Stepped(p) =>
              /\ pc[p] \in {"idle", "done"} =>
                    /\ pc'[p] = "cleanup_select"
                    /\ loc'[p].now = clock
                    /\ files' = files /\ blobs' = blobs
              /\ (InCleanup(p) /\ ~InCleanup(p)') =>
                    /\ pc'[p] = Body(op[p].name)
                    /\ loc[p].rows = {}
                    /\ \A r \in files' : ~ExpiredAt(r, loc[p].now)
              /\ (op[p].name = "list" /\ Finishes(p)) =>
                    /\ res'[p].status = "OK"
                    /\ Listed(res'[p]) = RowIds(files)
                    /\ \A k \in DOMAIN res'[p].body :
                          \/ res'[p].body[k].expires_at = None
                          \/ res'[p].body[k].expires_at[1] > loc[p].now
      ]_vars

\* The second request is a List() that finds the record of the first request
\* expired: its own Reaper pass has removed it and the list is empty.
C12_Witness ==
    /\ served = 2
    /\ pc["r1"] = "done"
    /\ op["r1"].name = "list"
    /\ res["r1"] = [status |-> "OK", body |-> <<>>]
    /\ hist[1].committed
    /\ hist[1].removers = {"cleanup"}
    /\ ~HasRow(files, 1)
    /\ ~Exists(blobs, 1)

----------------------------------------------------------------------------
\* C13: every removal of a catalog row by DeleteByID, DeleteByName or the
\* Reaper comes with an unlink of that row's blob, so that the blob file of
\* an upload that completed (no crash) is never in the object directory
\* without its catalog row, whatever the interleaving of uploads, deletes
\* and Reaper passes; in particular when an Upload of filename f commits its
\* row between the row selection and the row deletion of a DeleteByName(f).
C13_NoBlobWithoutRow ==
    \A i \in Ids :
        (hist[i].committed /\ Exists(blobs, i)) => HasRow(files, i)

----------------------------------------------------------------------------
\* C14: when records of one filename have the same created_at, the by-name
\* queries break the tie by a stable secondary key: over the same catalog
\* contents GetByName returns the same order on every call, and
\* GetLatestByName returns the same record on every call, the first element
\* of GetByName's result.
C14_TiesBrokenStably ==
    \A f \in Filenames :
        /\ \A s, t \in get_files_by_name(files, f) : s = t
        /\ \A k, l \in get_latest_file_by_name(files, f) : k = l
        /\ \A s \in get_files_by_name(files, f) :
              \A l \in get_latest_file_by_name(files, f) :
                 s # <<>> => l = Some(s[1])

----------------------------------------------------------------------------
\* Request p executes the last statement of its Reaper pass (commit, return).
PassReturns(p) == pc[p] = "cleanup_loop" /\ ~InCleanup(p)'

\* C15: Reaper passes may repeat and interleave: a pass that finds nothing
\* expired (as after a completed pass with no clock advance) removes nothing
\* and returns 0; when two passes interleave over the same expired records
\* each completes, the records it selected and their blobs are gone when it
\* returns, and it returns the count of the records it reclaimed, so that
\* the counts of the two passes add up to the number of rows removed.
C15_ReaperCountsReclaimed ==
    [][\A p \in Procs :
        /\ (pc[p] = "cleanup_select" /\ Stepped(p)
               /\ FindExpired(files, loc[p].now) = {}) =>
              /\ loc'[p].rows = {}
              /\ loc'[p].removed = 0
        /\ PassReturns(p) =>
              /\ \A i \in txn[p].del :
                    ~HasRow(files', i) /\ ~Exists(blobs', i)
              /\ loc[p].removed = Cardinality(files \ files')
      ]_vars

----------------------------------------------------------------------------
\* A record's expires_at is absent or greater than t.
LiveAt(x, t) == x.expires_at = None \/ x.expires_at[1] > t

\* C16: no download or listing returns a record that is past its TTL when
\* its catalog lookup executes, also when the clock advances, or an upload
\* commits its row, between the Reaper pass and the lookup: every record a
\* list or list-by-name returns has expires_at absent or greater than the
\* clock at the lookup, and so has the record of a download that succeeds
\* (stated for the download with the clock value its Reaper pass read, which
\* the clock at the lookup is not less than).
C16_NoneReturnedPastTtl ==
    [][\A p \in Procs :
        /\ (pc[p] \in {"list_select", "get_files_by_name"} /\ Stepped(p)) =>
              \A k \in DOMAIN res'[p].body : LiveAt(res'[p].body[k], clock)
        /\ (pc[p] = "file_response" /\ Stepped(p)
               /\ res'[p].status = "OK") =>
              LiveAt(loc[p].row[1], loc[p].now)
      ]_vars

----------------------------------------------------------------------------
\* C17: in every reachable state, a catalog row has expires_at set exactly
\* when its upload supplied a TTL, and then expires_at = created_at +
\* ttlSeconds and expires_at > created_at.
C17_ExpiryAfterCreation ==
    \A r \in files \cup UNION { txn[p].ins : p \in Procs } :
        /\ r.expires_at # None <=> hist[r.id].exp # None
        /\ r.expires_at # None =>
              /\ r.expires_at[1] = r.created_at + hist[r.id].exp[1]
              /\ r.expires_at[1] > r.created_at

\* A row with a TTL, created after the clock has advanced, is in the catalog
\* next to a row without a TTL.
C17_Witness ==
    \E r, x \in files :
        /\ r.expires_at # None
        /\ r.created_at > 0
        /\ x.expires_at = None
        /\ hist[x.id].exp = None

----------------------------------------------------------------------------
\* Every object ever committed under filename f has been through a delete
\* by name.
AllDeletedByName(f) ==
    \A i \in Ids :
        (hist[i].committed /\ hist[i].filename = f)
            => "delete_by_name" \in hist[i].removers

\* C18: DeleteByName(filename) with no concurrent operation: it fails with
\* NotFound exactly when no row has the filename (after its Reaper pass);
\* otherwise it removes every row of that filename and the blob of each,
\* returns the number of rows removed, and touches no row and no blob of
\* another filename; a ListByName(filename) that follows fails with
\* NotFound.
C18_DeleteByNameRemovesAll ==
    [][\A p \in Procs :
        /\ (op[p].name = "delete_by_name" /\ InBody(p) /\ Stepped(p)) =>
              /\ pc[p] = "delete_name_select" =>
                    /\ res'[p].status = "NotFound"
                          <=> Named(files, op[p].filename) = {}
                    /\ files' = files /\ blobs' = blobs
              /\ \A r \in files :
                    r.filename # op[p].filename => r \in files'
              /\ \A i \in Ids :
                    blobs'[i] # blobs[i] =>
                       /\ blobs'[i] = None
                       /\ \E r \in Named(files, op[p].filename) : r.path = i
              /\ pc[p] = "delete_name_commit" =>
                    /\ files' = files \ Named(files, op[p].filename)
                    /\ \A r \in Named(files, op[p].filename) :
                          ~Exists(blobs', r.path)
                    /\ res'[p].status = "OK"
                    /\ res'[p].body = <<Cardinality(files \ files')>>
                    /\ res'[p].body[1] > 0
        /\ (op[p].name = "list_by_name" /\ Finishes(p)
               /\ AllDeletedByName(op[p].filename)) =>
              res'[p].status = "NotFound"
      ]_vars

\* A delete by name has removed the two rows of "a.txt" and their blobs and
\* has reported the count 2.
C18_Witness ==
    /\ pc["r1"] = "done"
    /\ op["r1"].name = "delete_by_name"
    /\ op["r1"].filename = "a.txt"
    /\ res["r1"] = [status |-> "OK", body |-> <<2>>]
    /\ Named(files, "a.txt") = {}
    /\ \A i \in Ids : hist[i].filename = "a.txt" => ~Exists(blobs, i)
    /\ Cardinality({ i \in Ids : hist[i].filename = "a.txt" }) = 2

----------------------------------------------------------------------------
\* Requests p and q are both done, and both were a DeleteByID of the once
\* committed id i, which nothing but DeleteByID has removed.
BothDeleted(p, q, i) ==
    /\ p # q
    /\ pc[p] = "done" /\ pc[q] = "done"
    /\ op[p].name = "delete" /\ op[q].name = "delete"
    /\ op[p].file_id = i /\ op[q].file_id = i
    /\ hist[i].committed
    /\ hist[i].removers = {"delete"}

\* C19 (as stated): of two DeleteByID calls for the same id running
\* concurrently against a catalog that holds the row, exactly one reports
\* success and the other reports NotFound, for every interleaving of their
\* select, unlink, row-delete and commit steps.
C19_ExactlyOneSucceeds ==
    \A p, q \in Procs, i \in Ids :
        BothDeleted(p, q, i) =>
            \/ res[p].status = "OK" /\ res[q].status = "NotFound"
            \/ res[p].status = "NotFound" /\ res[q].status = "OK"

\* C19 (amended): each of the two calls reports success when its own select
\* finds the row, that is when its select runs before the other call's
\* commit, and NotFound otherwise (never anything else); so both report
\* success when both selects precede the first commit.  A call that reports
\* success leaves neither the row nor the blob behind.
C19_EachSelectDecides ==
    [][\A p \in Procs :
        (op[p].name = "delete" /\ InBody(p) /\ Stepped(p)) =>
          /\ pc[p] = "delete_select" =>
                IF HasRow(files, op[p].file_id)
                THEN /\ pc'[p] = "delete_unlink"
                     /\ res'[p] = NoRes
                     /\ loc'[p].row[1].id = op[p].file_id
                ELSE res'[p] = NotFoundResponse /\ pc'[p] = "done"
          /\ pc[p] \in {"delete_unlink", "delete_row"} =>
                /\ pc'[p] \in {"delete_row", "delete_commit"}
                /\ res'[p] = NoRes
          /\ pc[p] = "delete_commit" =>
                /\ res'[p] = [status |-> "OK", body |-> <<>>]
                /\ pc'[p] = "done"
                /\ ~HasRow(files', op[p].file_id)
                /\ ~Exists(blobs', op[p].file_id)
      ]_vars

\* Two DeleteByID calls of one id have both reported success.
C19_Witness ==
    \E i \in Ids :
        /\ BothDeleted("r1", "r2", i)
        /\ res["r1"].status = "OK"
        /\ res["r2"].status = "OK"
        /\ ~HasRow(files, i)
        /\ ~Exists(blobs, i)

----------------------------------------------------------------------------
\* C20: a Reaper pass at clock value now removes no row whose expires_at is
\* absent or greater than now and changes no blob but those of the rows
\* expired at now; the body of DeleteByID(id) changes no row and no blob of
\* another id; and when an operation ends, no row that stays in the catalog
\* has had its blob unlinked by an operation.
C20_OthersUntouched ==
    [][\A p \in Procs :
        (Stepped(p) /\ pc[p] \notin {"idle", "done"}) =>
          /\ InCleanup(p) =>
                /\ \A r \in files : LiveAt(r, loc[p].now) => r \in files'
                /\ \A i \in Ids :
                      blobs'[i] # blobs[i] =>
                         \E r \in files : r.id = i /\ ExpiredAt(r, loc[p].now)
          /\ (op[p].name = "delete" /\ InBody(p)) =>
                /\ \A r \in files : r.id # op[p].file_id => r \in files'
                /\ files' \subseteq files
                /\ \A i \in Ids :
                      i # op[p].file_id => blobs'[i] = blobs[i]
          /\ Finishes(p) =>
                \A r \in files' :
                   hist'[r.id].removers \subseteq {"external"}
      ]_vars

\* A DeleteByID has succeeded after the clock advanced, and the row of the
\* other id, which has a TTL that is not yet due, is in the catalog with its
\* whole blob.
C20_Witness ==
    /\ pc["r1"] = "done"
    /\ op["r1"].name = "delete"
    /\ res["r1"].status = "OK"
    /\ clock > 0
    /\ \E r \in files :
          /\ r.id # op["r1"].file_id
          /\ r.expires_at # None
          /\ r.expires_at[1] > clock
          /\ hist[r.id].removers = {}
          /\ blobs[r.path] = Some(hist[r.id].content)

====
